---- MODULE Spec2Model ----
(***************************************************************************)
(* A model of the graph-mutation engine of LabSound's AudioContext         *)
(* (src/src/Modules/webaudio/AudioContext.cpp): the two pending queues     *)
(* filled by connect/disconnect, the mutation cycle AudioContext::update   *)
(* that drains them, the reference list m_referencedNodes, the finished    *)
(* list and the two deletion lists; the automatic pull registry and the    *)
(* render hooks handlePreRenderTasks / handlePostRenderTasks that copy it; *)
(* automaticSources; stop, uninitialize and clear; the hardware context    *)
(* count; and the driver thread and shutdown of LabSound.cpp               *)
(* (src/include/LabSound/extended/SampledInstrumentNode.h, lines 225-295). *)
(*                                                                         *)
(* A node is named by a string.  Every node has one input port, input(0),  *)
(* and one output port, output(0); a port is named by the node owning it.  *)
(* An edge <<o, i>> says that output(0) of node o is linked into the       *)
(* summing junction of input(0) of node i.                                 *)
(***************************************************************************)
EXTENDS Integers, Sequences, FiniteSets, TLC

Nodes == {"src", "gain", "dest"}

\* An empty std::shared_ptr.
NULL == "null"

\* The application threads that call connect and disconnect.
AppThreads == {"t1", "t2"}

\* Bound: the number of connect/disconnect calls made in one behaviour.
MaxRequests == 3

\* Bound: the length the render thread lets m_finishedNodes and
\* m_nodesMarkedForDeletion reach.
MaxReported == 1

VARIABLES
    edges,                    \* the junctions: the set of linked <<output, input>> pairs
    m_connectionRefCount,     \* AudioNode::m_connectionRefCount of every node
    m_referencedNodes,        \* std::vector of node handles, duplicates kept
    pendingConnections,       \* port-level queue
    pendingNodeConnections,   \* node-level queue
    automaticSourcesMutex,    \* "free", or who holds the mutex
    updatePc,                 \* the position of the mutation driver inside update
    m_finishedNodes,
    m_nodesMarkedForDeletion,
    m_nodesToDelete,
    m_isDeletionScheduled,
    mainThreadCalls,          \* deleteMarkedNodesDispatch calls queued by callOnMainThread
    m_isInitialized,
    m_isAudioThreadFinished,
    crashed,                  \* the process died on a null dereference
    \* history variables, read by the properties only
    submitted,                \* the requests appended since the last drain, in call order
    cycle,                    \* what the last mutation cycle saw and produced
    netCount,                 \* the reference counts the calls made so far add up to
    nSubmitted,               \* requests appended so far
    nApplied,                 \* requests update has applied so far
    enqueuedBy,               \* requests appended so far, per thread
    \* the automatic pull registry
    m_automaticPullNodes,     \* std::set of node handles, written by application threads
    m_renderingAutomaticPullNodes,      \* std::vector, the copy the render thread iterates
    m_automaticPullNodesNeedUpdating,
    lastPull,                 \* history: the last add/removeAutomaticPullNode call
    \* the render thread
    renderPc,                 \* the position of the render thread inside one quantum
    pulled,                   \* processIfNecessary calls per node in the current quantum
    quantumStart,             \* history: m_automaticPullNodes when the quantum started
    touched,                  \* history: nodes added or removed since the quantum started
    \* ownership of nodes
    automaticSources,         \* std::vector of source handles held until finished
    hasFinished,              \* the source nodes whose hasFinished() is true
    appHolds,                 \* the nodes the application still holds a handle to
    \* the node-level loop of update taken statement by statement
    loopPos,                  \* entries of pendingNodeConnections already applied
    stmtPos,                  \* statements of the current entry already executed
    derefPos,                 \* entries of m_finishedNodes the harvest loop has passed
    \* shutdown and the driver thread of LabSound.cpp
    m_isStopScheduled,
    mainContext,              \* TRUE while the global mainContext is non-null
    graphLock,                \* "free", or who holds the context's graph lock
    finishPc,                 \* the position of the thread inside LabSound::finish
    finishAttempts,           \* lock attempts finish has made
    driverPc,                 \* the position of the thread running LabSound::update
    \* the hardware context limit
    s_hardwareContextCount,
    otherContexts,            \* the other contexts of the process
    lastCreate                \* history: what the last AudioContext::create returned

graphVars == <<edges, m_connectionRefCount, m_referencedNodes>>
queueVars == <<pendingConnections, pendingNodeConnections>>
deleteVars == <<m_nodesMarkedForDeletion, m_nodesToDelete, m_isDeletionScheduled, mainThreadCalls>>
lifeVars == <<m_isInitialized, m_isAudioThreadFinished>>
histVars == <<submitted, cycle, netCount, nSubmitted, nApplied, enqueuedBy>>

pullVars == <<m_automaticPullNodes, m_renderingAutomaticPullNodes,
              m_automaticPullNodesNeedUpdating, lastPull>>
renderVars == <<renderPc, pulled, quantumStart, touched>>
ownVars == <<automaticSources, hasFinished, appHolds>>
stmtVars == <<loopPos, stmtPos, derefPos>>
shutVars == <<m_isStopScheduled, mainContext, graphLock, finishPc, finishAttempts>>
ctxVars == <<s_hardwareContextCount, otherContexts, lastCreate>>
restVars == <<pullVars, renderVars, ownVars, stmtVars, shutVars, ctxVars>>

\* The variables of the graph-mutation engine.
coreVars == <<graphVars, queueVars, automaticSourcesMutex, updatePc, m_finishedNodes,
              deleteVars, lifeVars, crashed, histVars>>

vars == <<coreVars, restVars, driverPc>>

----------------------------------------------------------------------------
(* The requests.                                                           *)

\* PendingNodeConnection(from, to, connect)
PendingNodeConnection(from, to, connect) == [from |-> from, to |-> to, connect |-> connect]

\* PendingConnection(fromInput, toOutput, connect)
PendingConnection(fromInput, toOutput, connect) ==
    [fromInput |-> fromInput, toOutput |-> toOutput, connect |-> connect]

NodePairs == {p \in Nodes \X Nodes : p[1] # p[2]}

\* A queue entry as the history remembers it: which queue, and the entry.
NodeEntry(r) == [kind |-> "node", req |-> r]
PortEntry(r) == [kind |-> "port", req |-> r]

----------------------------------------------------------------------------
(* The graph operations update calls.                                      *)

\* The graph state as one value.
Graph == [edges |-> edges, count |-> m_connectionRefCount, refs |-> m_referencedNodes]

\* AudioNodeInput::connect(g, input, output): link the output into the
\* input's junction.  A junction is a set of outputs.
JunctionConnect(E, input, output) ==
    IF input = NULL \/ output = NULL THEN E ELSE E \cup {<<output, input>>}

\* AudioNodeInput::disconnect(g, input, output): unlink the output.
JunctionDisconnect(E, input, output) == E \ {<<output, input>>}

\* AudioNodeOutput::disconnectAll(g, output): unlink the output from every input.
OutputDisconnectAll(E, output) == {e \in E : e[1] # output}

\* AudioContext::refNode: m_referencedNodes.push_back(node)
refNode(refs, node) == Append(refs, node)

RECURSIVE EraseFirst(_, _)
EraseFirst(s, node) ==
    IF s = <<>> THEN <<>>
    ELSE IF Head(s) = node THEN Tail(s)
    ELSE <<Head(s)>> \o EraseFirst(Tail(s), node)

\* AudioContext::derefNode: erase the first handle equal to node, if any.
derefNode(refs, node) == EraseFirst(refs, node)

InSeq(s, x) == \E k \in 1..Len(s) : s[k] = x

\* atomicIncrement / atomicDecrement on a node's m_connectionRefCount
atomicIncrement(count, node) == [count EXCEPT ![node] = @ + 1]
atomicDecrement(count, node) == [count EXCEPT ![node] = @ - 1]

\* One iteration of update's loop over pendingConnections.
ApplyPendingConnection(g, i) ==
    IF i.connect
    THEN [g EXCEPT !.edges = JunctionConnect(@, i.fromInput, i.toOutput)]
    ELSE [g EXCEPT !.edges = OutputDisconnectAll(@, i.toOutput)]

\* The node-level entries whose application dereferences a null handle: the
\* single-argument disconnect stores its node in from and leaves to empty,
\* and update's else-branch then reads i.to->m_connectionRefCount.
DerefsNull(i) == ~i.connect /\ i.from # NULL /\ i.to = NULL

\* One iteration of update's loop over pendingNodeConnections.  Where the
\* iteration dereferences the empty i.to, this is the outcome in which the
\* accesses through the null handle have no effect.
ApplyPendingNodeConnection(g, i) ==
    IF i.connect
    THEN [edges |-> JunctionConnect(g.edges, i.to, i.from),
          refs  |-> refNode(refNode(g.refs, i.from), i.to),
          count |-> atomicIncrement(atomicIncrement(g.count, i.from), i.to)]
    ELSE IF i.from = NULL
    THEN [edges |-> OutputDisconnectAll(g.edges, i.to),
          refs  |-> g.refs,
          count |-> atomicDecrement(g.count, i.to)]
    ELSE IF i.to = NULL
    THEN [edges |-> g.edges,
          refs  |-> derefNode(g.refs, i.from),
          count |-> atomicDecrement(g.count, i.from)]
    ELSE [edges |-> JunctionDisconnect(g.edges, i.from, i.to),
          refs  |-> derefNode(derefNode(g.refs, i.from), i.to),
          count |-> atomicDecrement(atomicDecrement(g.count, i.from), i.to)]

\* A loop that visits a queue back to front.
BackToFront(q) == [k \in 1..Len(q) |-> q[Len(q) + 1 - k]]

\* The order in which update's range-for loops visit a queue: front to back.
IterationOrder(q) == q

RECURSIVE ApplyPortSeq(_, _)
ApplyPortSeq(g, q) ==
    IF q = <<>> THEN g ELSE ApplyPortSeq(ApplyPendingConnection(g, Head(q)), Tail(q))

RECURSIVE ApplyNodeSeq(_, _)
ApplyNodeSeq(g, q) ==
    IF q = <<>> THEN g ELSE ApplyNodeSeq(ApplyPendingNodeConnection(g, Head(q)), Tail(q))

\* The index of the first entry of q that dereferences null, 0 if none does.
FirstNullDeref(q) ==
    IF \E k \in 1..Len(q) : DerefsNull(q[k])
    THEN CHOOSE k \in 1..Len(q) :
            DerefsNull(q[k]) /\ \A j \in 1..(k - 1) : ~DerefsNull(q[j])
    ELSE 0

----------------------------------------------------------------------------
(* The initial state: a constructed context, nothing connected.            *)

EmptyGraph == [edges |-> {}, count |-> [n \in Nodes |-> 0], refs |-> <<>>]

NoCycle == [complete |-> FALSE, subs |-> <<>>, pre |-> EmptyGraph, mid |-> EmptyGraph,
            post |-> EmptyGraph, sink |-> {}]

\* No add/removeAutomaticPullNode call made yet.
NoPull == [op |-> "none", node |-> NULL, present |-> FALSE, same |-> TRUE]

\* The contexts of the process besides the one modelled in full.
OtherContexts == {"c2", "c3", "c4", "c5"}

\* A context AudioContext::create has not yet been called for.
NoContext == [created |-> FALSE, m_isInitialized |-> FALSE,
              m_isAudioThreadFinished |-> FALSE]

Init ==
    /\ edges = {}
    /\ m_connectionRefCount = [n \in Nodes |-> 0]
    /\ m_referencedNodes = <<>>
    /\ pendingConnections = <<>>
    /\ pendingNodeConnections = <<>>
    /\ automaticSourcesMutex = "free"
    /\ updatePc = "idle"
    /\ m_finishedNodes = <<>>
    /\ m_nodesMarkedForDeletion = <<>>
    /\ m_nodesToDelete = <<>>
    /\ m_isDeletionScheduled = FALSE
    /\ mainThreadCalls = 0
    /\ m_isInitialized = FALSE
    /\ m_isAudioThreadFinished = FALSE
    /\ crashed = FALSE
    /\ submitted = <<>>
    /\ cycle = NoCycle
    /\ netCount = [n \in Nodes |-> 0]
    /\ nSubmitted = 0
    /\ nApplied = 0
    /\ enqueuedBy = [t \in AppThreads |-> 0]
    /\ m_automaticPullNodes = {}
    /\ m_renderingAutomaticPullNodes = <<>>
    /\ m_automaticPullNodesNeedUpdating = FALSE
    /\ lastPull = NoPull
    /\ renderPc = "idle"
    /\ pulled = [n \in Nodes |-> 0]
    /\ quantumStart = {}
    /\ touched = {}
    /\ automaticSources = <<>>
    /\ hasFinished = {}
    /\ appHolds = Nodes
    /\ loopPos = 0
    /\ stmtPos = 0
    /\ derefPos = 0
    /\ m_isStopScheduled = FALSE
    /\ mainContext = FALSE
    /\ graphLock = "free"
    /\ finishPc = "none"
    /\ finishAttempts = 0
    /\ driverPc = "none"
    /\ s_hardwareContextCount = 0
    /\ otherContexts = [c \in OtherContexts |-> NoContext]
    /\ lastCreate = [result |-> "none", count |-> 0]

----------------------------------------------------------------------------
(* connect and disconnect: append one entry under the mutex.               *)

\* connect and disconnect written without the lock_guard.
LockGuardMissing == TRUE

\* lock_guard<mutex> lock(automaticSourcesMutex): the caller goes on once
\* nobody holds the mutex.
LockGuard == automaticSourcesMutex = "free"

\* A request put at the front of its queue.
EmplaceFront(q, r) == <<r>> \o q

\* std::vector::emplace_back
EmplaceBack(q, r) == Append(q, r)

\* What every connect/disconnect overload does besides choosing the queue.
Submitted(t, e) ==
    /\ ~crashed
    /\ LockGuard
    /\ nSubmitted < MaxRequests
    /\ submitted' = Append(submitted, e)
    /\ nSubmitted' = nSubmitted + 1
    /\ enqueuedBy' = [enqueuedBy EXCEPT ![t] = @ + 1]
    /\ netCount' = IF e.kind = "node"
                   THEN ApplyPendingNodeConnection([EmptyGraph EXCEPT !.count = netCount], e.req).count
                   ELSE netCount
    /\ UNCHANGED <<graphVars, automaticSourcesMutex, updatePc, m_finishedNodes,
                   deleteVars, lifeVars, restVars, driverPc, crashed, cycle, nApplied>>

\* connect(from, to) linking and counting at once instead of queueing.
ConnectApplied(t, from, to) ==
    /\ ~crashed
    /\ LockGuard
    /\ nSubmitted < MaxRequests
    /\ nSubmitted' = nSubmitted + 1
    /\ LET g == ApplyPendingNodeConnection(Graph, PendingNodeConnection(from, to, TRUE))
       IN  /\ edges' = g.edges
           /\ m_connectionRefCount' = g.count
           /\ m_referencedNodes' = g.refs
    /\ UNCHANGED <<queueVars, automaticSourcesMutex, updatePc, m_finishedNodes,
                   deleteVars, lifeVars, crashed, submitted, cycle, netCount, nApplied,
                   enqueuedBy, restVars, driverPc>>

\* AudioContext::connect(from, to)
Connect(t, from, to) ==
    /\ Submitted(t, NodeEntry(PendingNodeConnection(from, to, TRUE)))
    /\ pendingNodeConnections' =
          EmplaceBack(pendingNodeConnections, PendingNodeConnection(from, to, TRUE))
    /\ UNCHANGED pendingConnections

\* AudioContext::disconnect(from, to)
Disconnect(t, from, to) ==
    /\ Submitted(t, NodeEntry(PendingNodeConnection(from, to, FALSE)))
    /\ pendingNodeConnections' =
          EmplaceBack(pendingNodeConnections, PendingNodeConnection(from, to, FALSE))
    /\ UNCHANGED pendingConnections

\* AudioContext::disconnect(from): the node goes into from, to stays empty.
DisconnectNode(t, from) ==
    /\ Submitted(t, NodeEntry(PendingNodeConnection(from, NULL, FALSE)))
    /\ pendingNodeConnections' =
          EmplaceBack(pendingNodeConnections, PendingNodeConnection(from, NULL, FALSE))
    /\ UNCHANGED pendingConnections

\* AudioContext::connect(fromInput, toOutput)
ConnectPorts(t, fromInput, toOutput) ==
    /\ Submitted(t, PortEntry(PendingConnection(fromInput, toOutput, TRUE)))
    /\ pendingConnections' =
          EmplaceBack(pendingConnections, PendingConnection(fromInput, toOutput, TRUE))
    /\ UNCHANGED pendingNodeConnections

\* AudioContext::disconnect(toOutput)
DisconnectOutput(t, toOutput) ==
    /\ Submitted(t, PortEntry(PendingConnection(NULL, toOutput, FALSE)))
    /\ pendingConnections' =
          EmplaceBack(pendingConnections, PendingConnection(NULL, toOutput, FALSE))
    /\ UNCHANGED pendingNodeConnections

----------------------------------------------------------------------------
(* AudioContext::update, one step per statement group.  The mutex is held  *)
(* from UpdateLock to UpdateClearNode.                                     *)

SetGraph(g) ==
    /\ edges' = g.edges
    /\ m_connectionRefCount' = g.count
    /\ m_referencedNodes' = g.refs

\* The nodes in the deletion sink: marked for deletion or about to be deleted.
DeletionSink(marked, toDelete) ==
    {n \in Nodes : InSeq(marked, n) \/ InSeq(toDelete, n)}

\* lock_guard<mutex> lock(automaticSourcesMutex) at the top of update
UpdateLock ==
    /\ ~crashed
    /\ updatePc = "idle"
    /\ LockGuard
    /\ automaticSourcesMutex' = "update"
    /\ updatePc' = "port"
    /\ cycle' = [NoCycle EXCEPT !.subs = submitted, !.pre = Graph, !.mid = Graph, !.post = Graph]
    /\ submitted' = <<>>
    /\ driverPc' = IF driverPc = "call" THEN "updating" ELSE driverPc
    /\ UNCHANGED <<graphVars, queueVars, m_finishedNodes, deleteVars, lifeVars, restVars,
                   crashed, netCount, nSubmitted, nApplied, enqueuedBy>>

\* for (auto i : pendingConnections) ...
UpdateApplyPort ==
    /\ ~crashed
    /\ updatePc = "port"
    /\ SetGraph(ApplyPortSeq(Graph, IterationOrder(pendingConnections)))
    /\ nApplied' = nApplied + Len(pendingConnections)
    /\ updatePc' = "portClear"
    /\ UNCHANGED <<queueVars, automaticSourcesMutex, m_finishedNodes, deleteVars,
                   lifeVars, restVars, driverPc, crashed, submitted, cycle, netCount,
                   nSubmitted, enqueuedBy>>

\* pendingConnections.clear()
UpdateClearPort ==
    /\ ~crashed
    /\ updatePc = "portClear"
    /\ pendingConnections' = <<>>
    /\ updatePc' = "node"
    /\ cycle' = [cycle EXCEPT !.mid = Graph]
    /\ UNCHANGED <<graphVars, pendingNodeConnections, automaticSourcesMutex,
                   m_finishedNodes, deleteVars, lifeVars, restVars, driverPc, crashed,
                   submitted, netCount, nSubmitted, nApplied, enqueuedBy>>

\* for (auto i : pendingNodeConnections) ...: every entry is applied and the
\* loop ends; an entry that dereferences null is applied with those accesses
\* having no effect.
UpdateApplyNode ==
    /\ ~crashed
    /\ updatePc = "node"
    /\ SetGraph(ApplyNodeSeq(Graph, IterationOrder(pendingNodeConnections)))
    /\ nApplied' = nApplied + Len(pendingNodeConnections)
    /\ updatePc' = "nodeClear"
    /\ UNCHANGED <<queueVars, automaticSourcesMutex, m_finishedNodes, deleteVars,
                   lifeVars, restVars, driverPc, crashed, submitted, cycle, netCount,
                   nSubmitted, enqueuedBy>>

\* The same loop when the first null dereference traps: the entries before
\* it are applied, line 412 decrements from's count, line 413 faults.
UpdateApplyNodeTrap ==
    /\ ~crashed
    /\ updatePc = "node"
    /\ FirstNullDeref(IterationOrder(pendingNodeConnections)) # 0
    /\ LET q == IterationOrder(pendingNodeConnections)
           k == FirstNullDeref(q)
           g == ApplyNodeSeq(Graph, SubSeq(q, 1, k - 1))
       IN  /\ SetGraph([g EXCEPT !.count = atomicDecrement(@, q[k].from)])
           /\ nApplied' = nApplied + (k - 1)
    /\ crashed' = TRUE
    /\ UNCHANGED <<queueVars, automaticSourcesMutex, updatePc, m_finishedNodes,
                   deleteVars, lifeVars, restVars, driverPc, submitted, cycle, netCount,
                   nSubmitted, enqueuedBy>>

\* pendingNodeConnections.clear(), and the end of the mutex's scope
UpdateClearNode ==
    /\ ~crashed
    /\ updatePc = "nodeClear"
    /\ pendingNodeConnections' = <<>>
    /\ automaticSourcesMutex' = "free"
    /\ updatePc' = "deref"
    /\ UNCHANGED <<graphVars, pendingConnections, m_finishedNodes, deleteVars, lifeVars,
                   restVars, driverPc, crashed, histVars>>

RECURSIVE DerefAll(_, _)
DerefAll(refs, finished) ==
    IF finished = <<>> THEN refs
    ELSE DerefAll(derefNode(refs, Head(finished)), Tail(finished))

\* AudioContext::derefFinishedSourceNodes, the last statement of update
UpdateDerefFinished ==
    /\ ~crashed
    /\ updatePc = "deref"
    /\ m_referencedNodes' = DerefAll(m_referencedNodes, m_finishedNodes)
    /\ m_finishedNodes' = <<>>
    /\ updatePc' = "idle"
    /\ cycle' = [cycle EXCEPT !.complete = TRUE,
                              !.post = [Graph EXCEPT !.refs = m_referencedNodes'],
                              !.sink = DeletionSink(m_nodesMarkedForDeletion, m_nodesToDelete)]
    /\ driverPc' = IF driverPc = "updating" THEN "release" ELSE driverPc
    /\ UNCHANGED <<edges, m_connectionRefCount, queueVars, automaticSourcesMutex,
                   deleteVars, lifeVars, restVars, crashed, submitted, netCount,
                   nSubmitted, nApplied, enqueuedBy>>

Update ==
    \/ UpdateLock
    \/ UpdateApplyPort
    \/ UpdateClearPort
    \/ UpdateApplyNode
    \/ UpdateApplyNodeTrap
    \/ UpdateClearNode
    \/ UpdateDerefFinished

----------------------------------------------------------------------------
(* Initialization and the render thread's reports.                         *)

\* const unsigned MaxHardwareContexts = 4
MaxHardwareContexts == 4

\* The fields of a context that initialization and shutdown read and write.
Context(created, isInitialized, isAudioThreadFinished) ==
    [created |-> created, m_isInitialized |-> isInitialized,
     m_isAudioThreadFinished |-> isAudioThreadFinished]

\* AudioContext::lazyInitialize of a hardware context c whose destination
\* node is set, as LabSound::init sets it: the audio thread starts and the
\* context is counted.
lazyInitialize(c, count) ==
    IF ~c.m_isInitialized /\ ~c.m_isAudioThreadFinished
    THEN [ctx |-> [c EXCEPT !.m_isInitialized = TRUE], count |-> count + 1]
    ELSE [ctx |-> c, count |-> count]

\* What AudioContext::uninitialize does to the same fields of a hardware
\* context c.
uninitialize(c, count) ==
    IF ~c.m_isInitialized
    THEN [ctx |-> c, count |-> count]
    ELSE [ctx |-> [c EXCEPT !.m_isAudioThreadFinished = TRUE, !.m_isInitialized = FALSE],
          count |-> count - 1]

\* The context modelled in full, as a record.
ThisContext == Context(TRUE, m_isInitialized, m_isAudioThreadFinished)

\* AudioContext::lazyInitialize of this context, when it has an effect.
LazyInitialize ==
    /\ ~crashed
    /\ ~m_isInitialized
    /\ ~m_isAudioThreadFinished
    /\ LET r == lazyInitialize(ThisContext, s_hardwareContextCount)
       IN  /\ m_isInitialized' = r.ctx.m_isInitialized
           /\ s_hardwareContextCount' = r.count
    /\ UNCHANGED <<graphVars, queueVars, automaticSourcesMutex, updatePc,
                   m_finishedNodes, deleteVars, m_isAudioThreadFinished, crashed,
                   histVars, pullVars, renderVars, ownVars, stmtVars, shutVars,
                   otherContexts, lastCreate, driverPc>>

\* AudioContext::notifyNodeFinishedProcessing(r, node), called by the render
\* thread for a node the context references.
NotifyNodeFinishedProcessing(node) ==
    /\ ~crashed
    /\ m_isInitialized
    /\ InSeq(m_referencedNodes, node)
    /\ Len(m_finishedNodes) < MaxReported
    /\ m_finishedNodes' = Append(m_finishedNodes, node)
    /\ UNCHANGED <<graphVars, queueVars, automaticSourcesMutex, updatePc, deleteVars,
                   lifeVars, restVars, driverPc, crashed, histVars>>

\* AudioContext::markForDeletion(r, node)
MarkForDeletion(node) ==
    /\ ~crashed
    /\ m_isInitialized
    /\ InSeq(m_referencedNodes, node)
    /\ Len(m_nodesMarkedForDeletion) < MaxReported
    /\ m_nodesMarkedForDeletion' = Append(m_nodesMarkedForDeletion, node)
    /\ UNCHANGED <<graphVars, queueVars, automaticSourcesMutex, updatePc,
                   m_finishedNodes, m_nodesToDelete, m_isDeletionScheduled,
                   mainThreadCalls, lifeVars, restVars, driverPc, crashed, histVars>>

\* AudioContext::scheduleNodeDeletion(r), from handlePostRenderTasks
ScheduleNodeDeletion ==
    /\ ~crashed
    /\ m_isInitialized
    /\ Len(m_nodesMarkedForDeletion) # 0
    /\ ~m_isDeletionScheduled
    /\ m_nodesToDelete' = m_nodesToDelete \o m_nodesMarkedForDeletion
    /\ m_nodesMarkedForDeletion' = <<>>
    /\ m_isDeletionScheduled' = TRUE
    /\ mainThreadCalls' = mainThreadCalls + 1
    /\ UNCHANGED <<graphVars, queueVars, automaticSourcesMutex, updatePc,
                   m_finishedNodes, lifeVars, restVars, driverPc, crashed, histVars>>

\* AudioContext::deleteMarkedNodes
deleteMarkedNodes ==
    /\ m_nodesToDelete' = <<>>
    /\ m_isDeletionScheduled' = FALSE

\* AudioContext::deleteMarkedNodesDispatch, run by the main thread for one
\* queued callOnMainThread call.
DeleteMarkedNodesDispatch ==
    /\ ~crashed
    /\ mainThreadCalls > 0
    /\ mainThreadCalls' = mainThreadCalls - 1
    /\ deleteMarkedNodes
    /\ UNCHANGED <<graphVars, queueVars, automaticSourcesMutex, updatePc,
                   m_finishedNodes, m_nodesMarkedForDeletion, lifeVars, restVars,
                   driverPc, crashed, histVars>>

----------------------------------------------------------------------------
(* The automatic pull registry.                                            *)

\* The order std::set<std::shared_ptr<AudioNode>> keeps its handles in: the
\* order of the pointers, which one run fixes.
NodeRank == [n \in Nodes |-> IF n = "src" THEN 1 ELSE IF n = "gain" THEN 2 ELSE 3]

\* The handles of a std::set from begin() to end().
RECURSIVE InOrder(_)
InOrder(S) ==
    IF S = {} THEN <<>>
    ELSE LET n == CHOOSE x \in S : \A y \in S : NodeRank[x] <= NodeRank[y]
         IN  <<n>> \o InOrder(S \ {n})

\* The vector resized one slot short of the set.
SnapshotShort(S) == SubSeq(InOrder(S), 1, Cardinality(S) - 1)

\* resize(m_automaticPullNodes.size()) and the copy loop of
\* updateAutomaticPullNodes
SnapshotOf(S) == InOrder(S)

\* The flag left as it was.
NeedUpdatingNotSet == FALSE

\* m_automaticPullNodesNeedUpdating = true
NeedUpdating == TRUE

\* addAutomaticPullNode marking the registry dirty whatever it finds.
AddAlways(S, node) == TRUE

\* m_automaticPullNodes.find(node) == m_automaticPullNodes.end()
AddChanges(S, node) == node \notin S

\* it != m_automaticPullNodes.end()
RemoveChanges(S, node) == node \in S

\* What add/removeAutomaticPullNode leave in the history variables.
PullCalled(op, node, present, changes) ==
    /\ lastPull' = [op |-> op, node |-> node, present |-> present,
                    same |-> /\ m_automaticPullNodes' = m_automaticPullNodes
                             /\ m_automaticPullNodesNeedUpdating' =
                                   m_automaticPullNodesNeedUpdating
                             /\ m_renderingAutomaticPullNodes' =
                                   m_renderingAutomaticPullNodes]
    /\ touched' = IF changes THEN touched \cup {node} ELSE touched

\* AudioContext::addAutomaticPullNode(node)
AddAutomaticPullNode(node) ==
    /\ ~crashed
    /\ LockGuard
    /\ IF AddChanges(m_automaticPullNodes, node)
       THEN /\ m_automaticPullNodes' = m_automaticPullNodes \cup {node}
            /\ m_automaticPullNodesNeedUpdating' = NeedUpdating
       ELSE UNCHANGED <<m_automaticPullNodes, m_automaticPullNodesNeedUpdating>>
    /\ UNCHANGED m_renderingAutomaticPullNodes
    /\ PullCalled("add", node, node \in m_automaticPullNodes,
                  AddChanges(m_automaticPullNodes, node))
    /\ UNCHANGED <<coreVars, renderPc, pulled, quantumStart, ownVars, stmtVars, shutVars,
                   ctxVars, driverPc>>

\* AudioContext::removeAutomaticPullNode(node)
RemoveAutomaticPullNode(node) ==
    /\ ~crashed
    /\ LockGuard
    /\ IF RemoveChanges(m_automaticPullNodes, node)
       THEN /\ m_automaticPullNodes' = m_automaticPullNodes \ {node}
            /\ m_automaticPullNodesNeedUpdating' = NeedUpdating
       ELSE UNCHANGED <<m_automaticPullNodes, m_automaticPullNodesNeedUpdating>>
    /\ UNCHANGED m_renderingAutomaticPullNodes
    /\ PullCalled("remove", node, node \in m_automaticPullNodes,
                  RemoveChanges(m_automaticPullNodes, node))
    /\ UNCHANGED <<coreVars, renderPc, pulled, quantumStart, ownVars, stmtVars, shutVars,
                   ctxVars, driverPc>>

----------------------------------------------------------------------------
(* One render quantum: handlePreRenderTasks, processAutomaticPullNodes,    *)
(* handlePostRenderTasks, one step per statement that can wait.            *)

\* The positions at which the render thread stands in front of
\* lock_guard<mutex> lock(automaticSourcesMutex).
AtLockGuard == {"preLock", "postLock", "sources"}

\* handlePreRenderTasks is entered: the quantum starts.
RenderBegin ==
    /\ ~crashed
    /\ m_isInitialized
    /\ renderPc = "idle"
    /\ renderPc' = "preCheck"
    /\ pulled' = [n \in Nodes |-> 0]
    /\ quantumStart' = m_automaticPullNodes
    /\ touched' = {}
    /\ UNCHANGED <<coreVars, m_automaticPullNodes, m_renderingAutomaticPullNodes,
                   m_automaticPullNodesNeedUpdating, lastPull, ownVars, stmtVars, shutVars,
                   ctxVars, driverPc>>

\* if (m_automaticPullNodesNeedUpdating) at the top of
\* updateAutomaticPullNodes, in the pre-render and the post-render hook
RenderCheckDirty ==
    /\ ~crashed
    /\ renderPc \in {"preCheck", "postCheck"}
    /\ renderPc' = IF m_automaticPullNodesNeedUpdating
                   THEN (IF renderPc = "preCheck" THEN "preLock" ELSE "postLock")
                   ELSE (IF renderPc = "preCheck" THEN "pull" ELSE "sources")
    /\ UNCHANGED <<coreVars, pullVars, pulled, quantumStart, touched, ownVars, stmtVars,
                   shutVars, ctxVars, driverPc>>

\* The locked body of updateAutomaticPullNodes: the render thread goes on
\* once nobody holds the mutex, and copies the set.
RenderRebuild ==
    /\ ~crashed
    /\ renderPc \in {"preLock", "postLock"}
    /\ LockGuard
    /\ m_renderingAutomaticPullNodes' = SnapshotOf(m_automaticPullNodes)
    /\ m_automaticPullNodesNeedUpdating' = FALSE
    /\ renderPc' = IF renderPc = "preLock" THEN "pull" ELSE "sources"
    /\ UNCHANGED <<coreVars, m_automaticPullNodes, lastPull, pulled, quantumStart,
                   touched, ownVars, stmtVars, shutVars, ctxVars, driverPc>>

\* The number of slots of a vector holding node n.
RECURSIVE Occurrences(_, _)
Occurrences(q, n) ==
    IF q = <<>> THEN 0
    ELSE (IF Head(q) = n THEN 1 ELSE 0) + Occurrences(Tail(q), n)

\* AudioContext::processAutomaticPullNodes(r, framesToProcess)
ProcessAutomaticPullNodes ==
    /\ ~crashed
    /\ renderPc = "pull"
    /\ pulled' = [n \in Nodes |-> pulled[n] + Occurrences(m_renderingAutomaticPullNodes, n)]
    /\ renderPc' = "post"
    /\ UNCHANGED <<coreVars, pullVars, quantumStart, touched, ownVars, stmtVars,
                   shutVars, ctxVars, driverPc>>

\* scheduleNodeDeletion(r) would hand nodes over in this quantum.
ScheduleNeeded ==
    m_isInitialized /\ Len(m_nodesMarkedForDeletion) # 0 /\ ~m_isDeletionScheduled

\* handlePostRenderTasks from scheduleNodeDeletion, with nothing left to
\* hand over, to its call of updateAutomaticPullNodes
RenderPostTasks ==
    /\ ~crashed
    /\ renderPc = "post"
    /\ ~ScheduleNeeded
    /\ renderPc' = "postCheck"
    /\ UNCHANGED <<coreVars, pullVars, pulled, quantumStart, touched, ownVars, stmtVars,
                   shutVars, ctxVars, driverPc>>

\* The loop of handleAutomaticSources from slot k on: a finished source is
\* erased, and the ++i of the for statement then steps over the slot that
\* moved into its place.
RECURSIVE EraseFinished(_, _, _)
EraseFinished(q, k, finished) ==
    IF k > Len(q) THEN q
    ELSE IF q[k] \in finished
         THEN LET erased == SubSeq(q, 1, k - 1) \o SubSeq(q, k + 1, Len(q))
              IN  IF k > Len(erased) THEN erased
                  ELSE EraseFinished(erased, k + 1, finished)
         ELSE EraseFinished(q, k + 1, finished)

\* AudioContext::handleAutomaticSources, the last call of
\* handlePostRenderTasks: the quantum ends.
HandleAutomaticSources ==
    /\ ~crashed
    /\ renderPc = "sources"
    /\ LockGuard
    /\ automaticSources' = EraseFinished(automaticSources, 1, hasFinished)
    /\ renderPc' = "idle"
    /\ UNCHANGED <<coreVars, pullVars, pulled, quantumStart, touched, hasFinished,
                   appHolds, stmtVars, shutVars, ctxVars, driverPc>>

\* One step of the render thread inside a quantum.
RenderQuantum ==
    \/ RenderBegin
    \/ RenderCheckDirty
    \/ RenderRebuild
    \/ ProcessAutomaticPullNodes
    \/ RenderPostTasks
    \/ HandleAutomaticSources

----------------------------------------------------------------------------
(* The node-level loop of update, one statement at a time: the render      *)
(* thread holds neither the graph lock nor, outside the three lock_guard   *)
(* scopes above, the mutex, so it runs between any two statements.         *)

\* The statements of one loop iteration that change the graph state.
StatementsPerEntry == 5

\* The graph state after statement s of the iteration for entry i.
Statement(g, i, s) ==
    IF i.connect
    THEN CASE s = 1 -> [g EXCEPT !.edges = JunctionConnect(@, i.to, i.from)]
           [] s = 2 -> [g EXCEPT !.refs = refNode(@, i.from)]
           [] s = 3 -> [g EXCEPT !.refs = refNode(@, i.to)]
           [] s = 4 -> [g EXCEPT !.count = atomicIncrement(@, i.from)]
           [] s = 5 -> [g EXCEPT !.count = atomicIncrement(@, i.to)]
    ELSE CASE s = 1 -> [g EXCEPT !.count = atomicDecrement(@, i.from)]
           [] s = 2 -> [g EXCEPT !.count = atomicDecrement(@, i.to)]
           [] s = 3 -> [g EXCEPT !.edges = JunctionDisconnect(@, i.from, i.to)]
           [] s = 4 -> [g EXCEPT !.refs = derefNode(@, i.from)]
           [] s = 5 -> [g EXCEPT !.refs = derefNode(@, i.to)]

\* The next statement of the loop, for an entry with both handles set.
UpdateStatement ==
    /\ ~crashed
    /\ updatePc = "node"
    /\ loopPos < Len(pendingNodeConnections)
    /\ LET i == IterationOrder(pendingNodeConnections)[loopPos + 1]
       IN  /\ i.from # NULL /\ i.to # NULL
           /\ SetGraph(Statement(Graph, i, stmtPos + 1))
    /\ IF stmtPos + 1 = StatementsPerEntry
       THEN /\ loopPos' = loopPos + 1
            /\ stmtPos' = 0
            /\ nApplied' = nApplied + 1
       ELSE /\ stmtPos' = stmtPos + 1
            /\ UNCHANGED <<loopPos, nApplied>>
    /\ UNCHANGED <<queueVars, automaticSourcesMutex, updatePc, m_finishedNodes,
                   deleteVars, lifeVars, crashed, submitted, cycle, netCount, nSubmitted,
                   enqueuedBy, pullVars, renderVars, ownVars, derefPos, shutVars,
                   ctxVars, driverPc>>

\* i == end(): the loop is left.
UpdateLoopEnd ==
    /\ ~crashed
    /\ updatePc = "node"
    /\ loopPos = Len(pendingNodeConnections)
    /\ stmtPos = 0
    /\ loopPos' = 0
    /\ updatePc' = "nodeClear"
    /\ UNCHANGED <<graphVars, queueVars, automaticSourcesMutex, m_finishedNodes,
                   deleteVars, lifeVars, crashed, histVars, pullVars, renderVars,
                   ownVars, stmtPos, derefPos, shutVars, ctxVars, driverPc>>

\* AudioContext::update with its node-level loop taken statement by statement.
UpdateByStatement ==
    \/ UpdateLock
    \/ UpdateApplyPort
    \/ UpdateClearPort
    \/ UpdateStatement
    \/ UpdateLoopEnd
    \/ UpdateClearNode
    \/ UpdateDerefFinished

----------------------------------------------------------------------------
(* Who owns a node: every std::shared_ptr to it, in the context's          *)
(* containers or in the application's hands.  The node is destroyed by the *)
(* step that releases the last one.                                        *)

\* Bound: the length automaticSources is let reach.
MaxHeld == 2

\* The handles to node n held by the entries of pendingNodeConnections.
RECURSIVE QueuedHandles(_, _)
QueuedHandles(q, n) ==
    IF q = <<>> THEN 0
    ELSE (IF Head(q).from = n THEN 1 ELSE 0) + (IF Head(q).to = n THEN 1 ELSE 0)
         + QueuedHandles(Tail(q), n)

\* The number of handles to node n.
Owners(n) ==
    Occurrences(m_referencedNodes, n) + Occurrences(m_finishedNodes, n)
    + Occurrences(m_nodesMarkedForDeletion, n) + Occurrences(m_nodesToDelete, n)
    + Occurrences(automaticSources, n) + Occurrences(m_renderingAutomaticPullNodes, n)
    + QueuedHandles(pendingNodeConnections, n)
    + (IF n \in m_automaticPullNodes THEN 1 ELSE 0)
    + (IF n \in appHolds THEN 1 ELSE 0)

\* AudioContext::holdSourceNodeUntilFinished(sn)
HoldSourceNodeUntilFinished(sn) ==
    /\ ~crashed
    /\ LockGuard
    /\ sn \in appHolds
    /\ Len(automaticSources) < MaxHeld
    /\ automaticSources' = Append(automaticSources, sn)
    /\ UNCHANGED <<coreVars, pullVars, renderVars, hasFinished, appHolds, stmtVars,
                   shutVars, ctxVars, driverPc>>

\* The application drops its handle to node n.
AppRelease(n) ==
    /\ ~crashed
    /\ n \in appHolds
    /\ appHolds' = appHolds \ {n}
    /\ UNCHANGED <<coreVars, pullVars, renderVars, automaticSources, hasFinished,
                   stmtVars, shutVars, ctxVars, driverPc>>

\* A held source reaches its end while the quantum is rendered: from now on
\* (*i)->hasFinished() is true.
SourceFinishes(sn) ==
    /\ ~crashed
    /\ renderPc = "pull"
    /\ InSeq(automaticSources, sn)
    /\ sn \notin hasFinished
    /\ hasFinished' = hasFinished \cup {sn}
    /\ UNCHANGED <<coreVars, pullVars, renderVars, automaticSources, appHolds, stmtVars,
                   shutVars, ctxVars, driverPc>>

----------------------------------------------------------------------------
(* Shutdown: stop, uninitialize and clear, as functions of the fields they *)
(* read and write.                                                         *)

\* The fields shutdown reads and writes.
ShutdownState ==
    [m_isStopScheduled |-> m_isStopScheduled,
     ctx |-> ThisContext,
     count |-> s_hardwareContextCount,
     refs |-> m_referencedNodes,
     marked |-> m_nodesMarkedForDeletion,
     toDelete |-> m_nodesToDelete,
     scheduled |-> m_isDeletionScheduled]

SetShutdownState(s) ==
    /\ m_isStopScheduled' = s.m_isStopScheduled
    /\ m_isInitialized' = s.ctx.m_isInitialized
    /\ m_isAudioThreadFinished' = s.ctx.m_isAudioThreadFinished
    /\ s_hardwareContextCount' = s.count
    /\ m_referencedNodes' = s.refs
    /\ m_nodesMarkedForDeletion' = s.marked
    /\ m_nodesToDelete' = s.toDelete
    /\ m_isDeletionScheduled' = s.scheduled

\* AudioContext::uninitialize(g)
Uninitialize(s) ==
    IF ~s.ctx.m_isInitialized THEN s
    ELSE LET r == uninitialize(s.ctx, s.count)
         IN  [s EXCEPT !.ctx = r.ctx, !.count = r.count, !.refs = <<>>]

\* AudioContext::deleteMarkedNodes, on the same record
DeleteMarked(s) == [s EXCEPT !.toDelete = <<>>, !.scheduled = FALSE]

\* AudioContext::clear: the do-while loop
RECURSIVE clear(_)
clear(s) ==
    LET d == DeleteMarked(s)
        m == [d EXCEPT !.toDelete = d.toDelete \o d.marked, !.marked = <<>>]
    IN  IF Len(m.toDelete) # 0 THEN clear(m) ELSE m

\* AudioContext::stop(g)
stop(s) ==
    IF s.m_isStopScheduled THEN s
    ELSE clear(Uninitialize([s EXCEPT !.m_isStopScheduled = TRUE]))

----------------------------------------------------------------------------
(* LabSound::init, the driver thread LabSound::update and LabSound::finish.*)
(* A ContextGraphLock takes the graph lock if nobody holds it and the      *)
(* context handle given to it is non-null; otherwise its context() is      *)
(* null.                                                                   *)

\* for (int i = 0; i < 10; ++i) in finish
FinishTries == 10

\* LabSound::init: the context is made the main context and initialized,
\* and the driver thread is started.
LabSoundInit ==
    /\ ~crashed
    /\ driverPc = "none"
    /\ ~m_isInitialized
    /\ ~m_isAudioThreadFinished
    /\ LET r == lazyInitialize(ThisContext, s_hardwareContextCount)
       IN  /\ m_isInitialized' = r.ctx.m_isInitialized
           /\ s_hardwareContextCount' = r.count
    /\ mainContext' = TRUE
    /\ driverPc' = "sleep"
    /\ UNCHANGED <<graphVars, queueVars, automaticSourcesMutex, updatePc,
                   m_finishedNodes, deleteVars, m_isAudioThreadFinished, crashed,
                   histVars, pullVars, renderVars, ownVars, stmtVars, m_isStopScheduled,
                   graphLock, finishPc, finishAttempts, otherContexts, lastCreate>>

\* The steps of the driver that change nothing but its position and the
\* graph lock.
DriverMoves(pc, lock) ==
    /\ driverPc' = pc
    /\ graphLock' = lock
    /\ UNCHANGED <<coreVars, pullVars, renderVars, ownVars, stmtVars, m_isStopScheduled,
                   mainContext, finishPc, finishAttempts, ctxVars>>

\* sleep_for, then if (mainContext) ... else break
DriverWake ==
    /\ ~crashed
    /\ driverPc = "sleep"
    /\ DriverMoves(IF mainContext THEN "lock" ELSE "finished", graphLock)

\* ContextGraphLock g(mainContext, "LabSound::update")
DriverLock ==
    /\ ~crashed
    /\ driverPc = "lock"
    /\ DriverMoves("test", IF mainContext /\ graphLock = "free" THEN "update" ELSE graphLock)

\* if (g.context() && mainContext); without the call, g goes out of scope
DriverTest ==
    /\ ~crashed
    /\ driverPc = "test"
    /\ IF graphLock = "update" /\ mainContext
       THEN DriverMoves("call", graphLock)
       ELSE DriverMoves("sleep", IF graphLock = "update" THEN "free" ELSE graphLock)

\* mainContext->update(g) when finish has reset mainContext since the test:
\* the call through the empty handle traps.  (In the other outcome the
\* handle read for the test is used and update runs.)
DriverCallTrap ==
    /\ driverPc = "call"
    /\ ~mainContext
    /\ ~crashed
    /\ crashed' = TRUE
    /\ UNCHANGED <<graphVars, queueVars, automaticSourcesMutex, updatePc,
                   m_finishedNodes, deleteVars, lifeVars, histVars, restVars, driverPc>>

\* mainContext->update(g), step by step
DriverUpdate ==
    /\ driverPc \in {"call", "updating"}
    /\ Update

\* update has returned: g goes out of scope
DriverRelease ==
    /\ ~crashed
    /\ driverPc = "release"
    /\ DriverMoves("sleep", "free")

\* The steps of finish that change nothing but its position, its attempt
\* counter, mainContext and the graph lock.
FinishMoves(pc, attempts, main, lock) ==
    /\ finishPc' = pc
    /\ finishAttempts' = attempts
    /\ mainContext' = main
    /\ graphLock' = lock
    /\ UNCHANGED <<coreVars, pullVars, renderVars, ownVars, stmtVars, m_isStopScheduled,
                   ctxVars, driverPc>>

\* mainContext.reset() and the sleep
FinishReset ==
    /\ ~crashed
    /\ driverPc # "none"
    /\ finishPc = "none"
    /\ FinishMoves("try", 0, FALSE, graphLock)

\* ContextGraphLock g(context, "LabSound::finish"); a failed attempt sleeps
\* and goes round the loop
FinishTry ==
    /\ ~crashed
    /\ finishPc = "try"
    /\ finishAttempts < FinishTries
    /\ IF graphLock = "free"
       THEN FinishMoves("locked", finishAttempts, mainContext, "finish")
       ELSE FinishMoves("try", finishAttempts + 1, mainContext, graphLock)

\* The loop ends without the lock: "could not acquire lock for shutdown",
\* and finish returns.
FinishGiveUp ==
    /\ ~crashed
    /\ finishPc = "try"
    /\ finishAttempts = FinishTries
    /\ FinishMoves("gaveUp", finishAttempts, mainContext, graphLock)

\* context->stop(g); context->deleteMarkedNodes(); context->uninitialize(g);
\* return.  uninitialize stops the audio thread, so it ends between quanta.
FinishStop ==
    /\ ~crashed
    /\ finishPc = "locked"
    /\ m_isInitialized => renderPc = "idle"
    /\ SetShutdownState(Uninitialize(DeleteMarked(stop(ShutdownState))))
    /\ finishPc' = "done"
    /\ graphLock' = "free"
    /\ UNCHANGED <<edges, m_connectionRefCount, queueVars, automaticSourcesMutex,
                   updatePc, m_finishedNodes, mainThreadCalls, crashed, histVars,
                   pullVars, renderVars, ownVars, stmtVars, mainContext, finishAttempts,
                   otherContexts, lastCreate, driverPc>>

\* One step of the driver thread.
Driver ==
    \/ DriverWake
    \/ DriverLock
    \/ DriverTest
    \/ DriverCallTrap
    \/ DriverUpdate
    \/ DriverRelease

\* One step of the thread that called finish.
Finish ==
    \/ FinishReset
    \/ FinishTry
    \/ FinishGiveUp
    \/ FinishStop

----------------------------------------------------------------------------
(* The other hardware contexts of the process: create, lazyInitialize and  *)
(* uninitialize, sharing s_hardwareContextCount with this context.         *)

\* AudioContext::create(ec) for context c: null at the limit, a new
\* context otherwise.
Create(c) ==
    /\ ~crashed
    /\ ~otherContexts[c].created
    /\ IF s_hardwareContextCount >= MaxHardwareContexts
       THEN /\ lastCreate' = [result |-> "null", count |-> s_hardwareContextCount]
            /\ UNCHANGED otherContexts
       ELSE /\ lastCreate' = [result |-> "context", count |-> s_hardwareContextCount]
            /\ otherContexts' = [otherContexts EXCEPT ![c] = Context(TRUE, FALSE, FALSE)]
    /\ UNCHANGED <<coreVars, pullVars, renderVars, ownVars, stmtVars, shutVars,
                   s_hardwareContextCount, driverPc>>

\* lazyInitialize of context c, when it has an effect
LazyInitializeOther(c) ==
    /\ ~crashed
    /\ otherContexts[c].created
    /\ ~otherContexts[c].m_isInitialized
    /\ ~otherContexts[c].m_isAudioThreadFinished
    /\ LET r == lazyInitialize(otherContexts[c], s_hardwareContextCount)
       IN  /\ otherContexts' = [otherContexts EXCEPT ![c] = r.ctx]
           /\ s_hardwareContextCount' = r.count
    /\ UNCHANGED <<coreVars, pullVars, renderVars, ownVars, stmtVars, shutVars,
                   lastCreate, driverPc>>

\* uninitialize(g) of context c, when it has an effect
UninitializeOther(c) ==
    /\ ~crashed
    /\ otherContexts[c].m_isInitialized
    /\ LET r == uninitialize(otherContexts[c], s_hardwareContextCount)
       IN  /\ otherContexts' = [otherContexts EXCEPT ![c] = r.ctx]
           /\ s_hardwareContextCount' = r.count
    /\ UNCHANGED <<coreVars, pullVars, renderVars, ownVars, stmtVars, shutVars,
                   lastCreate, driverPc>>

----------------------------------------------------------------------------
(* derefFinishedSourceNodes one statement at a time.  update holds the     *)
(* graph lock and the render thread the render lock, so                    *)
(* notifyNodeFinishedProcessing runs between any two of these steps.       *)

\* derefNode(g, m_finishedNodes[i]); i++
UpdateDerefStep ==
    /\ ~crashed
    /\ updatePc = "deref"
    /\ derefPos < Len(m_finishedNodes)
    /\ m_referencedNodes' = derefNode(m_referencedNodes, m_finishedNodes[derefPos + 1])
    /\ derefPos' = derefPos + 1
    /\ UNCHANGED <<edges, m_connectionRefCount, queueVars, automaticSourcesMutex, updatePc,
                   m_finishedNodes, deleteVars, lifeVars, crashed, histVars, pullVars,
                   renderVars, ownVars, loopPos, stmtPos, shutVars, ctxVars, driverPc>>

\* i < m_finishedNodes.size() is false: the loop is left.
UpdateDerefLoopEnd ==
    /\ ~crashed
    /\ updatePc = "deref"
    /\ derefPos = Len(m_finishedNodes)
    /\ updatePc' = "derefClear"
    /\ UNCHANGED <<graphVars, queueVars, automaticSourcesMutex, m_finishedNodes,
                   deleteVars, lifeVars, crashed, histVars, restVars, driverPc>>

\* m_finishedNodes.clear(), and update returns
UpdateDerefClear ==
    /\ ~crashed
    /\ updatePc = "derefClear"
    /\ m_finishedNodes' = <<>>
    /\ derefPos' = 0
    /\ updatePc' = "idle"
    /\ cycle' = [cycle EXCEPT !.complete = TRUE,
                              !.post = Graph,
                              !.sink = DeletionSink(m_nodesMarkedForDeletion, m_nodesToDelete)]
    /\ driverPc' = IF driverPc = "updating" THEN "release" ELSE driverPc
    /\ UNCHANGED <<graphVars, queueVars, automaticSourcesMutex, deleteVars, lifeVars,
                   crashed, submitted, netCount, nSubmitted, nApplied, enqueuedBy,
                   pullVars, renderVars, ownVars, loopPos, stmtPos, shutVars, ctxVars>>

\* m_finishedNodes.push_back(i) while derefFinishedSourceNodes reads or
\* clears the same vector: the outcome of the race in which the reader is
\* left with storage the push_back has freed, and the process dies.  (The
\* outcomes in which the two accesses fall one after the other are the
\* interleavings of NotifyNodeFinishedProcessing with the steps above.)
NotifyDuringHarvestTrap(node) ==
    /\ ~crashed
    /\ m_isInitialized
    /\ InSeq(m_referencedNodes, node)
    /\ updatePc \in {"deref", "derefClear"}
    /\ crashed' = TRUE
    /\ UNCHANGED <<graphVars, queueVars, automaticSourcesMutex, updatePc, m_finishedNodes,
                   deleteVars, lifeVars, histVars, restVars, driverPc>>

\* AudioContext::update with derefFinishedSourceNodes taken statement by
\* statement.
UpdateHarvesting ==
    \/ UpdateLock
    \/ UpdateApplyPort
    \/ UpdateClearPort
    \/ UpdateApplyNode
    \/ UpdateClearNode
    \/ UpdateDerefStep
    \/ UpdateDerefLoopEnd
    \/ UpdateDerefClear

----------------------------------------------------------------------------
(* stop called by the application.                                         *)

\* AudioContext::stop(g), called by an application thread that holds the
\* graph lock for the call, in whatever state the context is.  When the
\* context is initialized, uninitialize joins the audio thread, so the call
\* gets past it with no quantum in progress.
Stop ==
    /\ ~crashed
    /\ graphLock = "free"
    /\ updatePc = "idle"
    /\ m_isInitialized => renderPc = "idle"
    /\ SetShutdownState(stop(ShutdownState))
    /\ UNCHANGED <<edges, m_connectionRefCount, queueVars, automaticSourcesMutex,
                   updatePc, m_finishedNodes, mainThreadCalls, crashed, histVars,
                   pullVars, renderVars, ownVars, stmtVars, mainContext, graphLock,
                   finishPc, finishAttempts, otherContexts, lastCreate, driverPc>>

----------------------------------------------------------------------------
(* The specifications.                                                     *)

\* One application thread issuing node-level requests on three nodes, and
\* the mutation driver.
Next ==
    \/ \E p \in NodePairs : Connect("t1", p[1], p[2])
    \/ \E p \in NodePairs : Disconnect("t1", p[1], p[2])
    \/ \E n \in Nodes : DisconnectNode("t1", n)
    \/ Update

Spec == Init /\ [][Next]_vars

\* The nodes the other specifications connect.
OrderNodes == {"src", "gain"}
OrderPairs == {p \in OrderNodes \X OrderNodes : p[1] # p[2]}

\* One application thread filling both queues, and the mutation driver.
NextOrder ==
    \/ \E p \in OrderPairs : Connect("t1", p[1], p[2])
    \/ \E p \in OrderPairs : Disconnect("t1", p[1], p[2])
    \/ \E n \in OrderNodes : DisconnectNode("t1", n)
    \/ \E p \in OrderPairs : ConnectPorts("t1", p[2], p[1])
    \/ \E n \in OrderNodes : DisconnectOutput("t1", n)
    \/ Update

SpecOrder == Init /\ [][NextOrder]_vars

\* Two application threads racing for the mutex with the mutation driver.
NextThreads ==
    \/ \E t \in AppThreads, p \in OrderPairs : Connect(t, p[1], p[2])
    \/ \E t \in AppThreads, p \in OrderPairs : Disconnect(t, p[1], p[2])
    \/ \E t \in AppThreads, n \in OrderNodes : DisconnectNode(t, n)
    \/ Update

SpecThreads == Init /\ [][NextThreads]_vars

\* Node-level requests, the mutation driver, the render thread's reports
\* and the deletion hand-off.
NextLife ==
    \/ \E p \in OrderPairs : Connect("t1", p[1], p[2])
    \/ \E p \in OrderPairs : Disconnect("t1", p[1], p[2])
    \/ \E n \in OrderNodes : DisconnectNode("t1", n)
    \/ Update
    \/ LazyInitialize
    \/ \E n \in OrderNodes : NotifyNodeFinishedProcessing(n)
    \/ \E n \in OrderNodes : MarkForDeletion(n)
    \/ ScheduleNodeDeletion
    \/ DeleteMarkedNodesDispatch

SpecLife == Init /\ [][NextLife]_vars

\* The pair the specifications with a render thread connect.
RenderPair == <<"src", "gain">>

\* The render thread running quanta while one application thread connects,
\* disconnects and registers a pull node, and the mutation driver applies
\* the requests statement by statement.
NextRender ==
    \/ LazyInitialize
    \/ Connect("t1", RenderPair[1], RenderPair[2])
    \/ Disconnect("t1", RenderPair[1], RenderPair[2])
    \/ AddAutomaticPullNode("src")
    \/ UpdateByStatement
    \/ RenderQuantum

SpecRender == Init /\ [][NextRender]_vars

\* The nodes the application hands to holdSourceNodeUntilFinished, and the
\* node it registers for automatic pulling.
HeldNodes == {"src", "gain"}
PullNode == "gain"

\* The application hands sources to the context and drops its own handles,
\* while the render thread runs quanta.
NextOwn ==
    \/ LazyInitialize
    \/ \E n \in HeldNodes : HoldSourceNodeUntilFinished(n)
    \/ \E n \in HeldNodes : AppRelease(n)
    \/ \E n \in HeldNodes : SourceFinishes(n)
    \/ AddAutomaticPullNode(PullNode)
    \/ RemoveAutomaticPullNode(PullNode)
    \/ RenderQuantum

SpecOwn == Init /\ [][NextOwn]_vars

\* The nodes the application registers for automatic pulling.
PullNodes == {"src", "gain"}

\* One application thread registering and removing pull nodes and
\* disconnecting one of them, the mutation driver, and the render thread
\* running quanta.
NextPull ==
    \/ LazyInitialize
    \/ DisconnectNode("t1", "src")
    \/ \E n \in PullNodes : AddAutomaticPullNode(n)
    \/ \E n \in PullNodes : RemoveAutomaticPullNode(n)
    \/ Update
    \/ RenderQuantum

SpecPull == Init /\ [][NextPull]_vars

\* LabSound::init, one application thread connecting, the render thread's
\* finished reports, the driver thread and LabSound::finish.
NextShutdown ==
    \/ LabSoundInit
    \/ Connect("t1", RenderPair[1], RenderPair[2])
    \/ \E n \in OrderNodes : NotifyNodeFinishedProcessing(n)
    \/ \E n \in OrderNodes : MarkForDeletion(n)
    \/ Driver
    \/ Finish

SpecShutdown == Init /\ [][NextShutdown]_vars

\* Five hardware contexts: this one, already constructed, and four more,
\* created, initialized and uninitialized in any order.
NextContexts ==
    \/ LazyInitialize
    \/ \E c \in OtherContexts : Create(c)
    \/ \E c \in OtherContexts : LazyInitializeOther(c)
    \/ \E c \in OtherContexts : UninitializeOther(c)

SpecContexts == Init /\ [][NextContexts]_vars

\* One application thread connecting and disconnecting one pair of nodes
\* while the mutation driver, the render thread's reports and the deletion
\* hand-off go on.
NextFrame ==
    \/ LazyInitialize
    \/ Connect("t1", RenderPair[1], RenderPair[2])
    \/ Disconnect("t1", RenderPair[1], RenderPair[2])
    \/ DisconnectNode("t1", RenderPair[1])
    \/ Update
    \/ NotifyNodeFinishedProcessing(RenderPair[1])
    \/ MarkForDeletion(RenderPair[2])
    \/ ScheduleNodeDeletion
    \/ DeleteMarkedNodesDispatch

SpecFrame == Init /\ [][NextFrame]_vars

\* One application thread connecting one pair, the render thread reporting
\* finished nodes, and the mutation driver harvesting them statement by
\* statement.
NextHarvest ==
    \/ LazyInitialize
    \/ Connect("t1", RenderPair[1], RenderPair[2])
    \/ Disconnect("t1", RenderPair[1], RenderPair[2])
    \/ UpdateHarvesting
    \/ \E n \in OrderNodes : NotifyNodeFinishedProcessing(n)
    \/ \E n \in OrderNodes : NotifyDuringHarvestTrap(n)

SpecHarvest == Init /\ [][NextHarvest]_vars

\* One application thread connecting one pair and stopping the context at
\* any time, the render thread marking nodes and scheduling their deletion,
\* and the main thread running the dispatched deletions.
NextStop ==
    \/ LazyInitialize
    \/ Connect("t1", RenderPair[1], RenderPair[2])
    \/ DisconnectNode("t1", RenderPair[1])
    \/ Update
    \/ \E n \in OrderNodes : MarkForDeletion(n)
    \/ ScheduleNodeDeletion
    \/ DeleteMarkedNodesDispatch
    \/ Stop

SpecStop == Init /\ [][NextStop]_vars

----------------------------------------------------------------------------
(* Helpers of the properties.                                              *)

\* The entries of one queue among the requests a cycle drained, in call order.
ReqsOf(subs, kind) ==
    LET sel == SelectSeq(subs, LAMBDA e : e.kind = kind)
    IN  [k \in 1..Len(sel) |-> sel[k].req]

Reverse(q) == [k \in 1..Len(q) |-> q[Len(q) + 1 - k]]

\* One request applied to a graph state, whichever queue it went to.
ApplyEntry(g, e) ==
    IF e.kind = "port" THEN ApplyPendingConnection(g, e.req)
    ELSE ApplyPendingNodeConnection(g, e.req)

\* The requests applied one after another in the order given.
RECURSIVE ApplyInOrder(_, _)
ApplyInOrder(g, subs) ==
    IF subs = <<>> THEN g ELSE ApplyInOrder(ApplyEntry(g, Head(subs)), Tail(subs))

\* The edges touching node n.
EdgesTouching(E, n) == {e \in E : e[1] = n \/ e[2] = n}

IsNodeDisconnect(e) == e.kind = "node" /\ ~e.req.connect
Touches(e, n) == e.kind = "node" /\ (e.req.from = n \/ e.req.to = n)

----------------------------------------------------------------------------
(* C1 .. C10                                                               *)

\* C1: within each pending queue update applies the requests in the order
\* connect/disconnect appended them: after a completed cycle the state
\* reached when the port-level loop ended is the state before the cycle
\* with the port-level requests applied one at a time in call order, and
\* the state after the cycle is that state with the node-level requests
\* applied one at a time in call order.
C1_QueueOrderPreserved ==
    cycle.complete =>
        /\ cycle.mid = ApplyPortSeq(cycle.pre, ReqsOf(cycle.subs, "port"))
        /\ cycle.post = ApplyNodeSeq(cycle.mid, ReqsOf(cycle.subs, "node"))

\* A completed cycle that drained a port-level request and two node-level
\* requests whose order matters: reversed, they give another state.
C1_Witness ==
    /\ cycle.complete
    /\ Len(ReqsOf(cycle.subs, "port")) >= 1
    /\ Len(ReqsOf(cycle.subs, "node")) >= 2
    /\ ApplyNodeSeq(cycle.mid, Reverse(ReqsOf(cycle.subs, "node"))) # cycle.post

\* C2 as claimed: after a completed cycle the graph state is the state
\* before the cycle with all the requests the thread submitted, port-level
\* and node-level alike, applied one after another in call order.
C2_SubmissionOrderAcrossQueues ==
    cycle.complete => cycle.post = ApplyInOrder(cycle.pre, cycle.subs)

\* C2 as amended: after a completed cycle the graph state is the state
\* before the cycle with first the port-level requests and then the
\* node-level requests applied, each group in call order.
C2_PortRequestsThenNodeRequests ==
    cycle.complete =>
        cycle.post = ApplyInOrder(cycle.pre,
                         SelectSeq(cycle.subs, LAMBDA e : e.kind = "port")
                         \o SelectSeq(cycle.subs, LAMBDA e : e.kind = "node"))

\* A completed cycle whose node-level request was submitted before a
\* port-level one, and where call order would have given another state.
C2_Witness ==
    /\ cycle.complete
    /\ \E j, k \in 1..Len(cycle.subs) :
          j < k /\ cycle.subs[j].kind = "node" /\ cycle.subs[k].kind = "port"
    /\ cycle.post # ApplyInOrder(cycle.pre, cycle.subs)

\* C3: no request is lost or applied twice when two threads race with the
\* mutation driver: whenever the mutex is free every request appended so far
\* has been applied exactly once or is still queued, and once the queues are
\* drained the reference counts are the net effect of the requests in the
\* order they got the mutex.
C3_NoRequestLostOrDoubled ==
    /\ automaticSourcesMutex = "free" =>
          nApplied + Len(pendingConnections) + Len(pendingNodeConnections) = nSubmitted
    /\ (updatePc \in {"idle", "deref"} /\ pendingNodeConnections = <<>>
        /\ pendingConnections = <<>>) =>
          m_connectionRefCount = netCount

\* Both threads have appended, more than one cycle's worth has been applied
\* and the queues are drained.
C3_Witness ==
    /\ updatePc = "idle"
    /\ cycle.complete
    /\ pendingNodeConnections = <<>>
    /\ \A t \in AppThreads : enqueuedBy[t] >= 1
    /\ nApplied = MaxRequests
    /\ Len(cycle.subs) < nApplied
    /\ \E n \in Nodes : m_connectionRefCount[n] # 0

\* C4: after every completed cycle each node's connection reference count
\* is the number of live edges touching the node.
C4_RefCountEqualsLiveEdges ==
    (updatePc = "idle" /\ ~crashed) =>
        \A n \in Nodes :
            m_connectionRefCount[n] = Cardinality(EdgesTouching(edges, n))

\* C5: a cycle that drains connect(a, b) twice leaves the graph state a
\* cycle draining it once would leave.
C5_ConnectTwiceAsOnce ==
    (cycle.complete /\ Len(cycle.subs) = 2 /\ cycle.subs[1] = cycle.subs[2]
     /\ cycle.subs[1].kind = "node" /\ cycle.subs[1].req.connect) =>
        cycle.post = ApplyEntry(cycle.pre, cycle.subs[1])

\* C6: a cycle that drains disconnect(a, b) for an edge a -> b that does not
\* exist leaves the graph state unchanged.
C6_DisconnectAbsentEdgeNoOp ==
    (cycle.complete /\ Len(cycle.subs) = 1 /\ IsNodeDisconnect(cycle.subs[1])
     /\ cycle.subs[1].req.to # NULL
     /\ <<cycle.subs[1].req.from, cycle.subs[1].req.to>> \notin cycle.pre.edges) =>
        cycle.post = cycle.pre

\* C7: a cycle that drains disconnect(node) for a node with no connection
\* completes normally and leaves the graph state unchanged.
C7_DisconnectUnconnectedNodeNoOp ==
    (Len(cycle.subs) = 1 /\ IsNodeDisconnect(cycle.subs[1])
     /\ cycle.subs[1].req.to = NULL
     /\ cycle.pre.count[cycle.subs[1].req.from] = 0
     /\ EdgesTouching(cycle.pre.edges, cycle.subs[1].req.from) = {}
     /\ ~InSeq(cycle.pre.refs, cycle.subs[1].req.from)) =>
        /\ ~crashed
        /\ cycle.complete => cycle.post = cycle.pre

\* C8: no node with a nonzero connection reference count is in the deletion
\* sink.
C8_NoReferencedNodeInSink ==
    \A n \in Nodes :
        m_connectionRefCount[n] # 0 =>
            n \notin DeletionSink(m_nodesMarkedForDeletion, m_nodesToDelete)

\* C9: after a cycle that applied a disconnect touching a node, a node whose
\* count went from positive to zero is out of the reference list and in the
\* deletion sink, and a node whose count dropped but stayed positive is
\* still in the reference list.
C9_ZeroCountNodeHandedToSink ==
    cycle.complete =>
        \A n \in Nodes :
            (\E k \in 1..Len(cycle.subs) :
                IsNodeDisconnect(cycle.subs[k]) /\ Touches(cycle.subs[k], n)) =>
                /\ (cycle.pre.count[n] > 0 /\ cycle.post.count[n] = 0) =>
                      (~InSeq(cycle.post.refs, n) /\ n \in cycle.sink)
                /\ (cycle.post.count[n] > 0 /\ cycle.post.count[n] < cycle.pre.count[n]) =>
                      InSeq(cycle.post.refs, n)

\* C10: between mutation cycles every node with a positive connection
\* reference count is in the reference list.
C10_PositiveCountIsReferenced ==
    (updatePc = "idle" /\ ~crashed) =>
        \A n \in Nodes :
            m_connectionRefCount[n] > 0 => InSeq(m_referencedNodes, n)

----------------------------------------------------------------------------
(* C11 .. C20                                                              *)

\* C11: the render path never waits for a lock: the render thread never
\* stands in front of the mutex while the mutation cycle or an application
\* thread holds it.
C11_RenderNeverWaits ==
    ~(renderPc \in AtLockGuard /\ automaticSourcesMutex # "free")

\* C12: whenever a render quantum is in progress, every linked edge is
\* counted at both endpoints and both endpoints are in m_referencedNodes,
\* and the graph is the graph the cycle started from with some prefix of
\* the drained requests applied whole.
C12_RenderSeesWholeRequests ==
    renderPc # "idle" =>
        /\ \A e \in edges :
              /\ m_connectionRefCount[e[1]] >= 1 /\ m_connectionRefCount[e[2]] >= 1
              /\ InSeq(m_referencedNodes, e[1]) /\ InSeq(m_referencedNodes, e[2])
        /\ \E k \in 0..Len(cycle.subs) :
              Graph = ApplyInOrder(cycle.pre, SubSeq(cycle.subs, 1, k))

\* C13: no node is destroyed on the render thread: a step of the render
\* thread never releases the last handle to a node.
C13_NoNodeDestroyedOnRenderThread ==
    [][renderPc' # renderPc => \A n \in Nodes : Owners(n) > 0 => Owners(n)' > 0]_vars

\* The positions of the render thread after processAutomaticPullNodes.
AfterPull == {"post", "postCheck", "postLock", "sources"}

\* m_renderingAutomaticPullNodes holds exactly the handles of the set S.
Mirrors(S) ==
    \A n \in Nodes : Occurrences(m_renderingAutomaticPullNodes, n) = IF n \in S THEN 1 ELSE 0

C15_RegisteredNodesPulledOnce ==
    renderPc \in AfterPull =>
        \A n \in Nodes \ touched : pulled[n] = IF n \in quantumStart THEN 1 ELSE 0

\* A quantum processed the registered node src, which has no connection,
\* and did not process gain, which was removed before the quantum started.
C15_Witness ==
    /\ renderPc = "post"
    /\ quantumStart = {"src"} /\ pulled["src"] = 1 /\ edges = {}
    /\ lastPull.op = "remove" /\ lastPull.node = "gain" /\ lastPull.present
    /\ touched = {} /\ pulled["gain"] = 0

\* C16: addAutomaticPullNode of a registered node and
\* removeAutomaticPullNode of an unregistered node leave the set, the copy
\* and the dirty flag as they were, and no node is in the copy twice.
C16_RegistryIdempotent ==
    /\ ((lastPull.op = "add" /\ lastPull.present)
           \/ (lastPull.op = "remove" /\ ~lastPull.present)) => lastPull.same
    /\ \A n \in Nodes : Occurrences(m_renderingAutomaticPullNodes, n) <= 1

\* A registered node was added again after the copy was rebuilt.
C16_Witness ==
    /\ lastPull.op = "add" /\ lastPull.present
    /\ ~m_automaticPullNodesNeedUpdating
    /\ Occurrences(m_renderingAutomaticPullNodes, lastPull.node) = 1

\* C17: a connect or disconnect call only appends one entry to a pending
\* queue: it leaves the edges, the reference counts, m_referencedNodes, the
\* finished list and the deletion lists as they were; the graph state
\* changes only in a step of update.
C17_RequestOnlyAppends ==
    [][/\ nSubmitted' # nSubmitted =>
             /\ UNCHANGED <<edges, m_connectionRefCount, m_referencedNodes,
                            m_finishedNodes, m_nodesMarkedForDeletion, m_nodesToDelete>>
             /\ Len(pendingConnections') + Len(pendingNodeConnections') =
                   Len(pendingConnections) + Len(pendingNodeConnections) + 1
       /\ Graph' # Graph => updatePc # "idle"]_vars

\* A request is pending, submitted while the graph had an edge and a
\* finished node was waiting, and none of them changed.
C17_Witness ==
    /\ updatePc = "idle"
    /\ pendingNodeConnections # <<>>
    /\ edges # {}
    /\ m_finishedNodes # <<>>

\* What the destructor asserts.
DestructorConditions ==
    /\ ~m_isInitialized
    /\ m_isStopScheduled
    /\ Len(m_nodesToDelete) = 0
    /\ Len(m_referencedNodes) = 0
    /\ Len(m_finishedNodes) = 0
    /\ m_automaticPullNodes = {}
    /\ Len(m_renderingAutomaticPullNodes) = 0

\* C18: the step that runs stop leaves the context in a state where
\* everything the destructor asserts holds.
C18_StopEstablishesDestructorConditions ==
    [][(~m_isStopScheduled /\ m_isStopScheduled') => DestructorConditions']_vars

\* C19: when finish has returned, the context is stopped and uninitialized,
\* no mutation cycle is in flight, and the driver thread is neither inside
\* update nor about to call it.
C19_FinishQuiesces ==
    finishPc \in {"done", "gaveUp"} =>
        /\ m_isStopScheduled
        /\ ~m_isInitialized
        /\ updatePc = "idle"
        /\ driverPc \notin {"call", "updating"}

\* The number of hardware contexts that are initialized.
InitializedContexts ==
    Cardinality({c \in OtherContexts : otherContexts[c].m_isInitialized})
    + (IF m_isInitialized THEN 1 ELSE 0)

\* C20: s_hardwareContextCount stays within 0..MaxHardwareContexts and is
\* the number of initialized hardware contexts, and create returns null
\* exactly when it is called with the count at the limit.
C20_HardwareContextLimit ==
    /\ s_hardwareContextCount \in 0..MaxHardwareContexts
    /\ s_hardwareContextCount = InitializedContexts
    /\ lastCreate.result = "null" <=> lastCreate.count >= MaxHardwareContexts

----------------------------------------------------------------------------
(* C21 .. C25                                                              *)

\* C21: a node-level disconnect undoes the node-level connect.  A cycle
\* that drained connect(a, b) followed by disconnect(a, b) ends in the graph
\* state it started from; and on a fresh context, a cycle that drained
\* disconnect(a, b) alone, after a cycle that applied connect(a, b) alone,
\* ends in the empty graph.
C21_DisconnectMirrorsConnect ==
    cycle.complete =>
        \A p \in NodePairs :
            LET c == PendingNodeConnection(p[1], p[2], TRUE)
                d == PendingNodeConnection(p[1], p[2], FALSE)
            IN  /\ cycle.subs = <<NodeEntry(c), NodeEntry(d)>> => cycle.post = cycle.pre
                /\ (/\ nSubmitted = 2 /\ nApplied = 2
                    /\ cycle.subs = <<NodeEntry(d)>>
                    /\ cycle.pre = ApplyPendingNodeConnection(EmptyGraph, c)) =>
                       cycle.post = EmptyGraph

\* C22: no report of a finished node is lost: when derefFinishedSourceNodes
\* clears m_finishedNodes, its loop has passed every entry to derefNode;
\* and a harvested node leaves m_referencedNodes only if its connection
\* reference count is zero.
C22_FinishedNodesHarvestedOnce ==
    [][/\ (updatePc = "derefClear" /\ updatePc' = "idle") =>
             (derefPos = Len(m_finishedNodes) /\ m_finishedNodes' = <<>>)
       /\ (updatePc = "deref" /\ derefPos' = derefPos + 1
              /\ m_referencedNodes' # m_referencedNodes) =>
             m_connectionRefCount[m_finishedNodes[derefPos + 1]] = 0]_vars

\* C23: once stop has been called on the context (m_isStopScheduled is
\* set by the first call and never reset), no later lazyInitialize sets
\* m_isInitialized or starts the audio thread and counts the context.
C23_NoInitializeAfterUninitialize ==
    [][m_isStopScheduled =>
          /\ ~(~m_isInitialized /\ m_isInitialized')
          /\ s_hardwareContextCount' <= s_hardwareContextCount]_vars

\* C25: at most one deleteMarkedNodes dispatch is pending, and
\* m_isDeletionScheduled is true exactly while one is; nodes are moved
\* into m_nodesToDelete only when no dispatch is pending; and a node leaves
\* the marked list and m_nodesToDelete together only in a step that runs
\* deleteMarkedNodes (the dispatch, or stop through clear).
C25_DeletionHandOffExclusive ==
    /\ [](mainThreadCalls <= 1 /\ (m_isDeletionScheduled <=> mainThreadCalls = 1))
    /\ [][/\ Len(m_nodesToDelete') > Len(m_nodesToDelete) => mainThreadCalls = 0
          /\ ~(DeletionSink(m_nodesMarkedForDeletion, m_nodesToDelete)
                  \subseteq DeletionSink(m_nodesMarkedForDeletion', m_nodesToDelete')) =>
                (mainThreadCalls' < mainThreadCalls \/ m_isStopScheduled' # m_isStopScheduled)]_vars

\* C24: handleAutomaticSources leaves in automaticSources exactly the held
\* sources that have not finished, in their order: every finished source is
\* removed, adjacent ones and the last one too, and no other.
C24_FinishedSourcesAllRemoved ==
    [][(renderPc = "sources" /\ renderPc' = "idle") =>
          automaticSources' = SelectSeq(automaticSources, LAMBDA n : n \notin hasFinished)]_vars

====
